---- MODULE Spec2Model ----
(***************************************************************************)
(* TaintScoreboard of the DVR out-of-order core (src/taint_scoreboard.cc): *)
(* the taint table, the single active session, the store of completed      *)
(* dependency chains, the compute-step ledgers and the replay of a ledger  *)
(* from a new seed.  Every public method is a function from the state of   *)
(* the object and the inputs of the call (the dynamic instruction, the     *)
(* answers of the host CPU) to the state after the call, and one action.   *)
(***************************************************************************)
EXTENDS Integers, Sequences, FiniteSets, TLC

(***************************************************************************)
(* Bounds of the model.                                                    *)
(***************************************************************************)
\* numPhysRegs handed to the constructor
NumPhysRegs == 7
\* number of calls the host makes on the object
MaxCalls == 5

(***************************************************************************)
(* Program constants.                                                      *)
(***************************************************************************)
\* taintedRegs.resize(256, false) when numPhysRegs == 0
DefaultNumPhysRegs == 256
\* uint64_t initValue = 2690
DefaultInitValue == 2690
\* case 0x0a: slli
OpcodeSlli == 10
\* case 0x32: add
OpcodeAdd == 50
\* case 0x03: load
OpcodeLoad == 3
\* operand2 = 2 of the slli step
SlliShamt == 2

\* taintedRegs.size() after construction
TableSize == IF NumPhysRegs = 0 THEN DefaultNumPhysRegs ELSE NumPhysRegs

(***************************************************************************)
(* uint64_t: four 16-bit limbs, least significant first, so that sums and  *)
(* shifts wrap at 2^64 as in the build.                                    *)
(***************************************************************************)
Limb == 65536

U64 == [1..4 -> 0..(Limb - 1)]

\* (uint64_t) of a signed 32-bit value: sign extension
ToU64(n) ==
  LET ext == IF n < 0 THEN Limb - 1 ELSE 0
  IN  <<n % Limb, (n \div Limb) % Limb, ext, ext>>

\* a + b on uint64_t
U64Add(a, b) ==
  LET s1 == a[1] + b[1]
      s2 == a[2] + b[2] + (s1 \div Limb)
      s3 == a[3] + b[3] + (s2 \div Limb)
      s4 == a[4] + b[4] + (s3 \div Limb)
  IN  <<s1 % Limb, s2 % Limb, s3 % Limb, s4 % Limb>>

\* a << n on uint64_t, 0 <= n < 64
U64Shl(a, n) ==
  LET q == n \div 16
      r == n % 16
      limb(i) == IF i >= 1 /\ i <= 4 THEN a[i] ELSE 0
  IN  [i \in 1..4 |->
         ((limb(i - q) * (2 ^ r)) % Limb) + ((limb(i - q - 1) * (2 ^ r)) \div Limb)]

(***************************************************************************)
(* The encoded instruction word, as the int32_t the code casts it to.      *)
(***************************************************************************)
\* machineInst & 0x7f
Opcode(raw) == raw % 128

\* ((int32_t)machineInst) >> 20
Imm(raw) == raw \div 1048576

(***************************************************************************)
(* Inputs: addresses, register indices, instruction words, host values.    *)
(***************************************************************************)
Addrs == {4096, 4100, 4104}

\* the first index past the taint table
OutOfRange == TableSize

RegIds == {5, 6, OutOfRange}

\* c.slli a5, 2
RawSlli == 15 * 128 + 2 * 4 + 2
\* c.add a5, a2
RawAdd == 9 * 4096 + 15 * 128 + 12 * 4 + 2
\* lw a5, 8(a4)
RawLoad8 == 8 * 1048576 + 14 * 32768 + 2 * 4096 + 15 * 128 + 3
\* lw a5, -4(a4)
RawLoadNeg == (-4) * 1048576 + 14 * 32768 + 2 * 4096 + 15 * 128 + 3
\* addi a5, a5, 1
RawAddi == 1 * 1048576 + 15 * 32768 + 15 * 128 + 19

VARIABLES
  cpu,                          \* CPU *cpu: TRUE when a host is attached
  taintedRegs,                  \* std::vector<bool> taintedRegs
  taintedValues,                \* std::map<int, uint64_t> taintedValues
  activeSession,                \* TaintSession activeSession
  hasActiveSession,             \* bool hasActiveSession
  dependencyChains,             \* std::vector<DependencyChain>
  completedStridePCs,           \* std::unordered_set<Addr>
  numTaintedRegs,               \* int numTaintedRegs
  numTaintPropagations,         \* int numTaintPropagations
  numDetectedPatterns,          \* int numDetectedPatterns
  computeStepsByPC,             \* std::map<Addr, std::vector<ComputeStep>>
  currentSessionComputeSteps,   \* std::map<Addr, std::vector<ComputeStep>>
  last,                         \* history: the last call and the branch it took
  calls                         \* history: the number of calls made so far

vars == <<cpu, taintedRegs, taintedValues, activeSession, hasActiveSession,
          dependencyChains, completedStridePCs, numTaintedRegs,
          numTaintPropagations, numDetectedPatterns, computeStepsByPC,
          currentSessionComputeSteps, last, calls>>

(***************************************************************************)
(* Containers.                                                             *)
(***************************************************************************)
\* an empty std::map
EmptyMap == [k \in {} |-> 0]

\* m[k] = v on a std::map
MapPut(m, k, v) == [x \in (DOMAIN m) \cup {k} |-> IF x = k THEN v ELSE m[x]]

\* m.erase(k)
MapErase(m, k) == [x \in (DOMAIN m) \ {k} |-> m[x]]

\* the vector stored under k, empty when the key is absent (operator[] creates it)
MapAt(m, k) == IF k \in DOMAIN m THEN m[k] ELSE <<>>

\* iteration of a std::set<Addr>: ascending addresses
RECURSIVE SetToSortedSeq(_)
SetToSortedSeq(S) ==
  IF S = {} THEN <<>>
  ELSE LET m == CHOOSE x \in S : \A y \in S : x <= y
       IN  <<m>> \o SetToSortedSeq(S \ {m})

\* std::find: the 0-based position of x in a vector, Len(seq) when absent
Find(seq, x) ==
  IF \E i \in 1..Len(seq) : seq[i] = x
  THEN (CHOOSE i \in 1..Len(seq) : seq[i] = x /\ \A j \in 1..(i - 1) : seq[j] # x) - 1
  ELSE Len(seq)

\* taintedRegs.size(): the table is indexed from 0
Size(regs) == Cardinality(DOMAIN regs)

\* the elements of a vector
Range(seq) == {seq[i] : i \in 1..Len(seq)}

(***************************************************************************)
(* Records.                                                                *)
(***************************************************************************)
\* ComputeStep(_pc, _op, _op1, _op2, _res, _desc); the description is log text
ComputeStep(pc, op, op1, op2, res) ==
  [pc |-> pc, operation |-> op, operand1 |-> op1, operand2 |-> op2, result |-> res]

\* ComputeStep(0, "", 0, 0, 0, ""): the filler of steps.resize
EmptyStep == ComputeStep(0, "", ToU64(0), ToU64(0), ToU64(0))

\* DependencyChain(base, indirect) with its chainPCs
DependencyChain(base, indirect, pcs) ==
  [basePC |-> base, indirectPC |-> indirect, chainPCs |-> pcs]

(***************************************************************************)
(* The state of a TaintScoreboard as one record, and its construction.     *)
(***************************************************************************)
\* the members of the object
Cur ==
  [cpu |-> cpu, taintedRegs |-> taintedRegs, taintedValues |-> taintedValues,
   activeSession |-> activeSession, hasActiveSession |-> hasActiveSession,
   dependencyChains |-> dependencyChains, completedStridePCs |-> completedStridePCs,
   numTaintedRegs |-> numTaintedRegs, numTaintPropagations |-> numTaintPropagations,
   numDetectedPatterns |-> numDetectedPatterns, computeStepsByPC |-> computeStepsByPC,
   currentSessionComputeSteps |-> currentSessionComputeSteps]

\* TaintScoreboard(numPhysRegs); activeSession.stridePC is not read before taintReg
Constructed ==
  [cpu |-> FALSE,
   taintedRegs |-> [i \in 0..(TableSize - 1) |-> FALSE],
   taintedValues |-> EmptyMap,
   activeSession |-> [stridePC |-> 0, dependencyChain |-> {}],
   hasActiveSession |-> FALSE,
   dependencyChains |-> <<>>,
   completedStridePCs |-> {},
   numTaintedRegs |-> 0,
   numTaintPropagations |-> 0,
   numDetectedPatterns |-> 0,
   computeStepsByPC |-> EmptyMap,
   currentSessionComputeSteps |-> EmptyMap]

(***************************************************************************)
(* setCPU(cpu_ptr)                                                         *)
(***************************************************************************)
SetCPU(s, attached) == [s EXCEPT !.cpu = attached]

(***************************************************************************)
(* taintReg(destReg, pc).  isStride is the host's answer cpu->isStridePC(pc)*)
(* and values the host's cpu->getLSQ().getVectorLoadValues().               *)
(***************************************************************************)
\* variant of InvalidRegister: the bound is off by one
InvalidRegisterOffByOne(s, reg) == reg > Size(s.taintedRegs)

\* destReg->index() >= taintedRegs.size()
InvalidRegister(s, reg) == reg >= Size(s.taintedRegs)

\* variant of NonStridePC: the answer of the host is taken the wrong way round
NonStridePCInverted(s, isStride) == s.cpu /\ isStride

\* cpu && !cpu->isStridePC(pc)
NonStridePC(s, isStride) == s.cpu /\ ~isStride

\* the value the register is initialised with
InitValue(s, values) ==
  IF s.cpu /\ values # <<>> THEN values[Len(values)] ELSE ToU64(DefaultInitValue)

\* variant of NewSession: the chain of the replaced session is not cleared
NewSessionKeepingChain(s, pc) ==
  [stridePC |-> pc, dependencyChain |-> s.activeSession.dependencyChain \cup {pc}]

\* the session taintReg leaves open
NewSession(s, pc) == [stridePC |-> pc, dependencyChain |-> {pc}]

TaintReg(s, destReg, pc, isStride, values) ==
  IF InvalidRegister(s, destReg) \/ NonStridePC(s, isStride)
  THEN s
  ELSE [s EXCEPT !.taintedRegs = [@ EXCEPT ![destReg] = TRUE],
                 !.taintedValues = MapPut(@, destReg, InitValue(s, values)),
                 !.numTaintedRegs = @ + 1,
                 !.activeSession = NewSession(s, pc),
                 !.hasActiveSession = TRUE]

(***************************************************************************)
(* isRegTainted(reg)                                                       *)
(***************************************************************************)
IsRegTainted(s, reg) == IF reg < Size(s.taintedRegs) THEN s.taintedRegs[reg] ELSE FALSE

(***************************************************************************)
(* clearAllTaints()                                                        *)
(***************************************************************************)
\* variant of ClearAllTaints: the taint bits are left as they are
ClearAllTaintsKeepingBits(s) ==
  [s EXCEPT !.hasActiveSession = FALSE,
            !.numTaintedRegs = 0,
            !.currentSessionComputeSteps = EmptyMap]

\* variant of ClearAllTaints: the session is left open
ClearAllTaintsKeepingSession(s) ==
  [s EXCEPT !.taintedRegs = [i \in DOMAIN s.taintedRegs |-> FALSE],
            !.numTaintedRegs = 0,
            !.currentSessionComputeSteps = EmptyMap]

ClearAllTaints(s) ==
  [s EXCEPT !.taintedRegs = [i \in DOMAIN s.taintedRegs |-> FALSE],
            !.hasActiveSession = FALSE,
            !.numTaintedRegs = 0,
            !.currentSessionComputeSteps = EmptyMap]

(***************************************************************************)
(* propagateTaint(inst).  inst is the dynamic instruction: its address pc,  *)
(* renamed source and destination registers, isLoad() and raw word.        *)
(***************************************************************************)
\* variant of StaleSession: the completed set is not consulted
StaleSessionIgnored(s) == FALSE

\* the stale-session test: the session's stride PC is already completed
StaleSession(s) == s.activeSession.stridePC \in s.completedStridePCs

\* the scan of the source registers for a tainted one
HasTaintedSrc(s, inst) ==
  \E i \in 1..Len(inst.srcRegs) :
     inst.srcRegs[i] < Size(s.taintedRegs) /\ s.taintedRegs[inst.srcRegs[i]]

\* variant of ChainAfterScan: the address of the instruction is not inserted
ChainAfterScanWithoutPC(s, inst) == s.activeSession.dependencyChain

\* variant of ChainAfterScan: the address is inserted whatever the sources are
ChainAfterScanAlways(s, inst) == s.activeSession.dependencyChain \cup {inst.pc}

\* activeSession.dependencyChain after the scan of the sources
ChainAfterScan(s, inst) ==
  IF HasTaintedSrc(s, inst)
  THEN s.activeSession.dependencyChain \cup {inst.pc}
  ELSE s.activeSession.dependencyChain

\* the destination gets the taint
Propagates(s, inst) ==
  /\ HasTaintedSrc(s, inst)
  /\ Len(inst.destRegs) > 0
  /\ inst.destRegs[1] < Size(s.taintedRegs)

\* variant of Kills: an untainted redefinition keeps the taint
KillsNever(s, inst) == FALSE

\* the destination loses its taint
Kills(s, inst) ==
  /\ ~HasTaintedSrc(s, inst)
  /\ Len(inst.destRegs) > 0
  /\ inst.destRegs[1] < Size(s.taintedRegs)
  /\ s.taintedRegs[inst.destRegs[1]]

\* the state after the scan and the transfer of the taint
TransferTaint(s, inst) ==
  [s EXCEPT !.activeSession.dependencyChain = ChainAfterScan(s, inst),
            !.taintedRegs =
               IF Propagates(s, inst) THEN [@ EXCEPT ![inst.destRegs[1]] = TRUE]
               ELSE IF Kills(s, inst) THEN [@ EXCEPT ![inst.destRegs[1]] = FALSE]
               ELSE @,
            !.numTaintPropagations = IF Propagates(s, inst) THEN @ + 1 ELSE @]

\* variant of ClosesChain: every load closes the chain
ClosesChainOnAnyLoad(s, inst) == inst.isLoad

\* the instruction closes the chain
ClosesChain(s, inst) == inst.isLoad /\ HasTaintedSrc(s, inst)

\* the chain saved from the session t, closed by the instruction at currentPC
ClosedChain(t, currentPC) ==
  DependencyChain(t.activeSession.stridePC, currentPC,
                  SetToSortedSeq(t.activeSession.dependencyChain))

\* variant of SaveChain: the closed chain takes the place of the stored ones
SaveChainOverwriting(t, currentPC) ==
  LET pushed  == [t EXCEPT !.numDetectedPatterns = @ + 1,
                           !.dependencyChains = <<ClosedChain(t, currentPC)>>]
      cleared == ClearAllTaints(pushed)
  IN  [cleared EXCEPT
         !.currentSessionComputeSteps = MapErase(@, t.activeSession.stridePC),
         !.completedStridePCs = @ \cup {t.activeSession.stridePC}]

\* variant of SaveChain: the base PC is not marked completed
SaveChainUnmarked(t, currentPC) ==
  LET pushed  == [t EXCEPT !.numDetectedPatterns = @ + 1,
                           !.dependencyChains = Append(@, ClosedChain(t, currentPC))]
      cleared == ClearAllTaints(pushed)
  IN  [cleared EXCEPT
         !.currentSessionComputeSteps = MapErase(@, t.activeSession.stridePC)]

\* the state t after the transfer, with the chain saved and the session closed
SaveChain(t, currentPC) ==
  LET pushed  == [t EXCEPT !.numDetectedPatterns = @ + 1,
                           !.dependencyChains = Append(@, ClosedChain(t, currentPC))]
      cleared == ClearAllTaints(pushed)
  IN  [cleared EXCEPT
         !.currentSessionComputeSteps = MapErase(@, t.activeSession.stridePC),
         !.completedStridePCs = @ \cup {t.activeSession.stridePC}]

\* variant of PropagateTaint: the stale close drops the taints as well
PropagateTaintClearingStale(s, inst) ==
  IF ~s.hasActiveSession THEN s
  ELSE IF StaleSession(s) THEN ClearAllTaints(s)
  ELSE IF ClosesChain(s, inst) THEN SaveChain(TransferTaint(s, inst), inst.pc)
  ELSE TransferTaint(s, inst)

PropagateTaint(s, inst) ==
  IF ~s.hasActiveSession THEN s
  ELSE IF StaleSession(s) THEN [s EXCEPT !.hasActiveSession = FALSE]
  ELSE IF ClosesChain(s, inst) THEN SaveChain(TransferTaint(s, inst), inst.pc)
  ELSE TransferTaint(s, inst)

(***************************************************************************)
(* Queries of the chain store, of the ledger and of the counters.          *)
(***************************************************************************)
\* getDependencyChains()
GetDependencyChains(s) == s.dependencyChains

\* hasCompletedPattern(pc)
HasCompletedPattern(s, pc) == pc \in s.completedStridePCs

\* getDependencyChain(pc): the first chain with that base PC, <<>> for nullptr
GetDependencyChain(s, pc) ==
  LET found == {i \in 1..Len(s.dependencyChains) : s.dependencyChains[i].basePC = pc}
  IN  IF found = {} THEN <<>>
      ELSE <<s.dependencyChains[CHOOSE i \in found : \A j \in found : i <= j]>>

\* getComputeSteps(pc): the ledger, <<>> for nullptr
GetComputeSteps(s, pc) == MapAt(s.computeStepsByPC, pc)

\* getNumTaintedRegs(), getNumTaintPropagations(), getNumDetectedPatterns()
GetStats(s) ==
  [taintedCount |-> s.numTaintedRegs, propagationCount |-> s.numTaintPropagations,
   detectedPatternCount |-> s.numDetectedPatterns]

(***************************************************************************)
(* recomputeStepsForPC(pc, initValue)                                      *)
(***************************************************************************)
\* variant of ApplyStep: the shift works on the input the step has stored
ApplyStepOnStored(step, value) ==
  IF step.operation = "slli" THEN U64Shl(step.operand1, step.operand2[1])
  ELSE U64Add(value, step.operand2)

\* currentValue after one step; the only shift amount ever stored is below 64
ApplyStep(step, value) ==
  IF step.operation = "slli" THEN U64Shl(value, step.operand2[1])
  ELSE IF step.operation = "add" THEN U64Add(value, step.operand2)
  ELSE IF step.operation = "lw" THEN U64Add(value, step.operand2)
  ELSE value

\* the walk of the ledger: the steps as rewritten and the final currentValue
RECURSIVE Replay(_, _)
Replay(steps, value) ==
  IF steps = <<>> THEN [steps |-> <<>>, value |-> value]
  ELSE LET new  == ApplyStep(Head(steps), value)
           rest == Replay(Tail(steps), new)
       IN  [steps |-> <<[Head(steps) EXCEPT !.operand1 = value, !.result = new]>>
                        \o rest.steps,
            value |-> rest.value]

\* the value recomputeStepsForPC(pc, initValue) returns
RecomputeResult(s, pc, initValue) ==
  IF pc \in DOMAIN s.computeStepsByPC
  THEN Replay(s.computeStepsByPC[pc], initValue).value
  ELSE initValue

\* the state recomputeStepsForPC(pc, initValue) leaves
RecomputeStepsForPC(s, pc, initValue) ==
  IF pc \in DOMAIN s.computeStepsByPC
  THEN [s EXCEPT !.computeStepsByPC[pc] = Replay(@, initValue).steps]
  ELSE s

(***************************************************************************)
(* decodeChainInstructionOperands(pc, inst): the writeback-time recording  *)
(* of one chain instruction.  inst.regOperand is the value the host's      *)
(* getRegOperand(si, 1, &value) yields.                                    *)
(***************************************************************************)
\* pc is in the chain of the active session
InActiveChain(s, pc) == s.hasActiveSession /\ pc \in s.activeSession.dependencyChain

\* the completed chains that hold pc, by index
ChainsWith(s, pc) ==
  {i \in 1..Len(s.dependencyChains) : pc \in Range(s.dependencyChains[i].chainPCs)}

\* the first completed chain that holds pc
FirstChainWith(s, pc) ==
  s.dependencyChains[CHOOSE i \in ChainsWith(s, pc) : \A j \in ChainsWith(s, pc) : i <= j]

\* isInChain
IsInChain(s, pc) == InActiveChain(s, pc) \/ ChainsWith(s, pc) # {}

\* stridePC of the chain pc was found in
ChainStridePC(s, pc) ==
  IF InActiveChain(s, pc) THEN s.activeSession.stridePC ELSE FirstChainWith(s, pc).basePC

\* chainOrder of the chain pc was found in
ChainOrder(s, pc) ==
  IF InActiveChain(s, pc)
  THEN SetToSortedSeq(s.activeSession.dependencyChain)
  ELSE FirstChainWith(s, pc).chainPCs

\* steps.size() >= chainOrder.size(): the chain counts as fully processed
FullyProcessed(s, pc) ==
  Len(MapAt(s.currentSessionComputeSteps, ChainStridePC(s, pc))) >= Len(ChainOrder(s, pc))

\* variant of DecodeOperation: every other opcode is taken for an add
DecodeOperationLoose(inst) ==
  IF Opcode(inst.raw) = OpcodeSlli
  THEN [operation |-> "slli", operand2 |-> ToU64(SlliShamt)]
  ELSE IF Opcode(inst.raw) = OpcodeLoad
  THEN [operation |-> "lw", operand2 |-> ToU64(Imm(inst.raw))]
  ELSE [operation |-> "add", operand2 |-> inst.regOperand]

\* the switch on the opcode: operation and operand2, "" when unrecognised
DecodeOperation(inst) ==
  IF Opcode(inst.raw) = OpcodeSlli
  THEN [operation |-> "slli", operand2 |-> ToU64(SlliShamt)]
  ELSE IF Opcode(inst.raw) = OpcodeAdd
  THEN [operation |-> "add", operand2 |-> inst.regOperand]
  ELSE IF Opcode(inst.raw) = OpcodeLoad
  THEN [operation |-> "lw", operand2 |-> ToU64(Imm(inst.raw))]
  ELSE [operation |-> "", operand2 |-> ToU64(0)]

\* the step built from the decoded instruction
DecodedStep(pc, inst) ==
  ComputeStep(pc, DecodeOperation(inst).operation, ToU64(0),
              DecodeOperation(inst).operand2, ToU64(0))

\* steps.resize(position + 1, filler) when steps.size() <= position
Resize(steps, position) ==
  IF Len(steps) <= position
  THEN steps \o [i \in 1..(position + 1 - Len(steps)) |-> EmptyStep]
  ELSE steps

\* the session ledger with the step stored at its chain position
StepsWith(steps, position, step) ==
  [Resize(steps, position) EXCEPT ![position + 1] = step]

\* variant of AlreadyExists: a saved step of the pc is never found
AlreadyExistsNever(savedSteps, pc) == FALSE

\* alreadyExists: a saved step of that pc
AlreadyExists(savedSteps, pc) ==
  \E i \in 1..Len(savedSteps) : savedSteps[i].pc = pc

\* variant of InsertPos: every step is put at the front
InsertPosFront(savedSteps, chainOrder, pc) == 0

\* insertPos, 0-based: before the first saved step that follows pc in chainOrder
InsertPos(savedSteps, chainOrder, pc) ==
  LET later == {i \in 1..Len(savedSteps) :
                  /\ Find(chainOrder, savedSteps[i].pc) < Len(chainOrder)
                  /\ Find(chainOrder, pc) < Len(chainOrder)
                  /\ Find(chainOrder, pc) < Find(chainOrder, savedSteps[i].pc)}
  IN  IF later = {} THEN Len(savedSteps)
      ELSE (CHOOSE i \in later : \A j \in later : i <= j) - 1

\* savedSteps.insert(insertPos, step)
InsertAt(seq, position, x) ==
  SubSeq(seq, 1, position) \o <<x>> \o SubSeq(seq, position + 1, Len(seq))

\* computeStepsByPC[stridePC] after the recording of step
SavedWith(savedSteps, chainOrder, step) ==
  IF AlreadyExists(savedSteps, step.pc)
  THEN savedSteps
  ELSE InsertAt(savedSteps, InsertPos(savedSteps, chainOrder, step.pc), step)

\* the step is recorded: the chain is not yet fully processed, the operation is
\* recognised, stridePC != 0 and pc is found in chainOrder
Records(s, pc, inst) ==
  /\ IsInChain(s, pc)
  /\ ~FullyProcessed(s, pc)
  /\ DecodeOperation(inst).operation # ""
  /\ ChainStridePC(s, pc) # 0
  /\ Find(ChainOrder(s, pc), pc) < Len(ChainOrder(s, pc))

DecodeChainInstructionOperands(s, pc, inst) ==
  IF ~IsInChain(s, pc) THEN s
  ELSE LET stridePC   == ChainStridePC(s, pc)
           chainOrder == ChainOrder(s, pc)
           steps      == MapAt(s.currentSessionComputeSteps, stridePC)
       IN  IF ~Records(s, pc, inst)
           THEN [s EXCEPT !.currentSessionComputeSteps = MapPut(@, stridePC, steps)]
           ELSE [s EXCEPT
                   !.currentSessionComputeSteps =
                      MapPut(@, stridePC,
                             StepsWith(steps, Find(chainOrder, pc), DecodedStep(pc, inst))),
                   !.computeStepsByPC =
                      MapPut(@, stridePC,
                             SavedWith(MapAt(@, stridePC), chainOrder,
                                       DecodedStep(pc, inst)))]

(***************************************************************************)
(* The branch a call takes, kept in the history variable last.             *)
(***************************************************************************)
TaintRegOutcome(s, destReg, pc, isStride) ==
  IF InvalidRegister(s, destReg) THEN "invalid-register"
  ELSE IF NonStridePC(s, isStride) THEN "non-stride"
  ELSE IF s.hasActiveSession /\ s.activeSession.stridePC # pc THEN "replaced"
  ELSE IF s.hasActiveSession THEN "reseeded"
  ELSE "seeded"

PropagateOutcome(s, inst) ==
  IF ~s.hasActiveSession THEN "no-session"
  ELSE IF StaleSession(s) THEN "stale"
  ELSE IF ClosesChain(s, inst) THEN "closed"
  ELSE IF Propagates(s, inst) THEN "propagated"
  ELSE IF Kills(s, inst) THEN "killed"
  ELSE IF HasTaintedSrc(s, inst) THEN "scanned"
  ELSE "untouched"

DecodeOutcome(s, pc, inst) ==
  IF ~IsInChain(s, pc) THEN "not-in-chain"
  ELSE IF FullyProcessed(s, pc) THEN "fully-processed"
  ELSE IF ~Records(s, pc, inst) THEN "unrecognised"
  ELSE IF AlreadyExists(MapAt(s.computeStepsByPC, ChainStridePC(s, pc)), pc) THEN "duplicate"
  ELSE "recorded"

RecomputeOutcome(s, pc) ==
  IF pc \in DOMAIN s.computeStepsByPC THEN "replayed" ELSE "no-ledger"

(***************************************************************************)
(* The calls of the host, with their inputs.                               *)
(***************************************************************************)
\* the object becomes t by the call op, which took the branch outcome
Becomes(t, op, outcome) ==
  /\ calls < MaxCalls
  /\ calls' = calls + 1
  /\ cpu' = t.cpu
  /\ taintedRegs' = t.taintedRegs
  /\ taintedValues' = t.taintedValues
  /\ activeSession' = t.activeSession
  /\ hasActiveSession' = t.hasActiveSession
  /\ dependencyChains' = t.dependencyChains
  /\ completedStridePCs' = t.completedStridePCs
  /\ numTaintedRegs' = t.numTaintedRegs
  /\ numTaintPropagations' = t.numTaintPropagations
  /\ numDetectedPatterns' = t.numDetectedPatterns
  /\ computeStepsByPC' = t.computeStepsByPC
  /\ currentSessionComputeSteps' = t.currentSessionComputeSteps
  /\ last' = [op |-> op, outcome |-> outcome]

\* a dynamic instruction
Inst(pc, srcRegs, destRegs, isLoad, raw, regOperand) ==
  [pc |-> pc, srcRegs |-> srcRegs, destRegs |-> destRegs, isLoad |-> isLoad,
   raw |-> raw, regOperand |-> regOperand]

\* the instructions of the explored runs
ProgramInsts ==
  {Inst(4100, <<5>>, <<6>>, FALSE, RawSlli, ToU64(0)),
   Inst(4104, <<6>>, <<5>>, TRUE, RawLoad8, ToU64(0)),
   Inst(4100, <<>>, <<6>>, FALSE, RawAddi, ToU64(0)),
   Inst(4096, <<5>>, <<OutOfRange>>, TRUE, RawLoadNeg, ToU64(0)),
   Inst(4104, <<OutOfRange, 6>>, <<>>, FALSE, RawAdd, ToU64(8))}

\* the registers and PCs the explored runs seed the taint from
SeedRegs == {5, OutOfRange}
SeedPCs == {4096, 4104}

\* the host's vectorised load values in the explored runs
LoadValues == {<<ToU64(16)>>}

\* the seed of a replay in the explored runs
ReplaySeeds == {ToU64(100)}

Init ==
  /\ cpu = Constructed.cpu
  /\ taintedRegs = Constructed.taintedRegs
  /\ taintedValues = Constructed.taintedValues
  /\ activeSession = Constructed.activeSession
  /\ hasActiveSession = Constructed.hasActiveSession
  /\ dependencyChains = Constructed.dependencyChains
  /\ completedStridePCs = Constructed.completedStridePCs
  /\ numTaintedRegs = Constructed.numTaintedRegs
  /\ numTaintPropagations = Constructed.numTaintPropagations
  /\ numDetectedPatterns = Constructed.numDetectedPatterns
  /\ computeStepsByPC = Constructed.computeStepsByPC
  /\ currentSessionComputeSteps = Constructed.currentSessionComputeSteps
  /\ last = [op |-> "construct", outcome |-> "constructed"]
  /\ calls = 0

DoSetCPU == Becomes(SetCPU(Cur, TRUE), "setCPU", "attached")

DoTaintReg ==
  \E destReg \in SeedRegs, pc \in SeedPCs, isStride \in BOOLEAN, values \in LoadValues :
     Becomes(TaintReg(Cur, destReg, pc, isStride, values), "taintReg",
             TaintRegOutcome(Cur, destReg, pc, isStride))

DoPropagateTaint ==
  \E inst \in ProgramInsts :
     Becomes(PropagateTaint(Cur, inst), "propagateTaint", PropagateOutcome(Cur, inst))

DoClearAllTaints == Becomes(ClearAllTaints(Cur), "clearAllTaints", "cleared")

DoDecodeChainInstructionOperands ==
  \E inst \in ProgramInsts :
     Becomes(DecodeChainInstructionOperands(Cur, inst.pc, inst),
             "decodeChainInstructionOperands", DecodeOutcome(Cur, inst.pc, inst))

DoRecomputeStepsForPC ==
  \E pc \in SeedPCs, seed \in ReplaySeeds :
     Becomes(RecomputeStepsForPC(Cur, pc, seed), "recomputeStepsForPC",
             RecomputeOutcome(Cur, pc))

Next ==
  \/ DoSetCPU
  \/ DoTaintReg
  \/ DoPropagateTaint
  \/ DoClearAllTaints
  \/ DoDecodeChainInstructionOperands
  \/ DoRecomputeStepsForPC

Spec == Init /\ [][Next]_vars

(***************************************************************************)
(* The inputs the properties range over: wider than the explored runs.     *)
(***************************************************************************)
\* renamed source register lists
SrcLists == {<<>>, <<5>>, <<6>>, <<OutOfRange, 6>>, <<OutOfRange>>}

\* renamed destination register lists
DestLists == {<<>>, <<5>>, <<6>>, <<OutOfRange>>}

\* instructions as propagateTaint sees them: address, registers, isLoad()
AnyPropagated ==
  {Inst(p, srcs, dests, isLoad, IF isLoad THEN RawLoad8 ELSE RawSlli, ToU64(0)) :
     p \in Addrs, srcs \in SrcLists, dests \in DestLists, isLoad \in BOOLEAN}

\* instructions as decodeChainInstructionOperands sees them: address and word
AnyDecoded ==
  {Inst(p, <<5>>, <<6>>, raw \in {RawLoad8, RawLoadNeg}, raw, v) :
     p \in Addrs, raw \in {RawSlli, RawAdd, RawLoad8, RawLoadNeg, RawAddi},
     v \in {ToU64(8), ToU64(12)}}

\* answers of the host to getVectorLoadValues()
AnyLoadValues == {<<>>, <<ToU64(16)>>}

\* seeds of a replay
AnySeeds == {ToU64(100), ToU64(16), <<Limb - 1, Limb - 1, Limb - 1, Limb - 1>>}

\* the registers with the taint bit set
Tainted(s) == {r \in DOMAIN s.taintedRegs : s.taintedRegs[r]}

\* some source register of the instruction is tainted
SomeSrcTainted(s, inst) ==
  \E i \in 1..Len(inst.srcRegs) : inst.srcRegs[i] \in Tainted(s)

\* a session is open and its base PC is not completed
OpenNonStale(s) ==
  s.hasActiveSession /\ s.activeSession.stridePC \notin s.completedStridePCs

\* the seeding call passes both checks of taintReg
SeedAccepted(s, destReg, isStride) ==
  destReg \in DOMAIN s.taintedRegs /\ (s.cpu => isStride)

(***************************************************************************)
(* C1: one session at most.  An accepted taintReg(destReg, pc) issued      *)
(* while a session for another base PC is open leaves exactly the session  *)
(* {stridePC = pc, dependencyChain = {pc}} open; the completed chains and  *)
(* the set of completed base PCs are what they were (the old session is    *)
(* not persisted).                                                         *)
(***************************************************************************)
C1_SeedReplacesSession ==
  \A destReg \in RegIds, pc \in Addrs, isStride \in BOOLEAN, values \in AnyLoadValues :
     LET t == TaintReg(Cur, destReg, pc, isStride, values)
     IN  (/\ SeedAccepted(Cur, destReg, isStride)
          /\ hasActiveSession
          /\ activeSession.stridePC # pc)
         => /\ t.hasActiveSession
            /\ t.activeSession = [stridePC |-> pc, dependencyChain |-> {pc}]
            /\ t.dependencyChains = dependencyChains
            /\ t.completedStridePCs = completedStridePCs

C1_Witness ==
  /\ last = [op |-> "taintReg", outcome |-> "replaced"]
  /\ hasActiveSession
  /\ activeSession.dependencyChain = {activeSession.stridePC}

(***************************************************************************)
(* C2: completedChains() holds at most one entry per base PC; once a chain *)
(* of base PC b is completed, taintReg(_, b) followed by propagateTaint of *)
(* any instruction (a load with a tainted source included) leaves the      *)
(* completed chains as they were, and so does any propagateTaint on a      *)
(* session of base PC b.                                                   *)
(***************************************************************************)
C2_OneChainPerBase ==
  /\ \A i, j \in 1..Len(dependencyChains) :
        dependencyChains[i].basePC = dependencyChains[j].basePC => i = j
  /\ \A inst \in AnyPropagated :
        /\ (hasActiveSession /\ GetDependencyChain(Cur, activeSession.stridePC) # <<>>)
             => PropagateTaint(Cur, inst).dependencyChains = dependencyChains
        /\ \A k \in 1..Len(dependencyChains), destReg \in RegIds :
              LET seeded == TaintReg(Cur, destReg, dependencyChains[k].basePC, TRUE, <<>>)
              IN  SeedAccepted(Cur, destReg, TRUE)
                  => PropagateTaint(seeded, inst).dependencyChains = dependencyChains

C2_Witness ==
  /\ last = [op |-> "propagateTaint", outcome |-> "stale"]
  /\ GetDependencyChain(Cur, activeSession.stridePC) # <<>>
  /\ ~hasActiveSession

(***************************************************************************)
(* C3: propagateTaint on an open, non-stale session.  With no tainted      *)
(* source and a tainted destination, the destination is untainted after    *)
(* the call.  With a tainted source and a destination register inside the  *)
(* taint table, the destination is tainted after the call whatever it was  *)
(* before, unless the instruction is a load: a load with a tainted source  *)
(* closes the chain and leaves no register tainted.                        *)
(***************************************************************************)
C3_TaintTransfer ==
  \A inst \in AnyPropagated :
     LET t == PropagateTaint(Cur, inst)
     IN  OpenNonStale(Cur) =>
           /\ (/\ ~SomeSrcTainted(Cur, inst)
               /\ Len(inst.destRegs) > 0
               /\ inst.destRegs[1] \in Tainted(Cur))
              => inst.destRegs[1] \notin Tainted(t)
           /\ (/\ SomeSrcTainted(Cur, inst)
               /\ Len(inst.destRegs) > 0
               /\ inst.destRegs[1] \in DOMAIN taintedRegs
               /\ ~inst.isLoad)
              => inst.destRegs[1] \in Tainted(t)
           /\ (SomeSrcTainted(Cur, inst) /\ inst.isLoad) => Tainted(t) = {}

C3_Witness ==
  /\ last = [op |-> "propagateTaint", outcome |-> "killed"]
  /\ hasActiveSession
  /\ 6 \notin Tainted(Cur)

\* C3 as first stated: with a tainted source the destination, if any, is tainted
\* after the call, loads included
C3_AsStated ==
  \A inst \in AnyPropagated :
     LET t == PropagateTaint(Cur, inst)
     IN  OpenNonStale(Cur) =>
           /\ (/\ ~SomeSrcTainted(Cur, inst)
               /\ Len(inst.destRegs) > 0
               /\ inst.destRegs[1] \in Tainted(Cur))
              => inst.destRegs[1] \notin Tainted(t)
           /\ (/\ SomeSrcTainted(Cur, inst)
               /\ Len(inst.destRegs) > 0
               /\ inst.destRegs[1] \in DOMAIN taintedRegs)
              => inst.destRegs[1] \in Tainted(t)

(***************************************************************************)
(* C4: propagateTaint of a load with a tainted source on an open,          *)
(* non-stale session appends exactly one record to completedChains(): its  *)
(* basePC is the session's stridePC, its indirectPC the address of the     *)
(* load, its chainPCs the addresses of the session's dependencyChain with  *)
(* the load's own address, each once.  After the call no register is       *)
(* tainted, no session is open and the base PC is marked completed.        *)
(***************************************************************************)
C4_LoadClosesChain ==
  \A inst \in AnyPropagated :
     LET t      == PropagateTaint(Cur, inst)
         n      == Len(dependencyChains)
         closed == t.dependencyChains[n + 1]
         pcs    == activeSession.dependencyChain \cup {inst.pc}
     IN  (OpenNonStale(Cur) /\ inst.isLoad /\ SomeSrcTainted(Cur, inst)) =>
           /\ Len(t.dependencyChains) = n + 1
           /\ SubSeq(t.dependencyChains, 1, n) = dependencyChains
           /\ closed.basePC = activeSession.stridePC
           /\ closed.indirectPC = inst.pc
           /\ Range(closed.chainPCs) = pcs
           /\ Len(closed.chainPCs) = Cardinality(pcs)
           /\ Tainted(t) = {}
           /\ ~t.hasActiveSession
           /\ HasCompletedPattern(t, activeSession.stridePC)

C4_Witness ==
  /\ last = [op |-> "propagateTaint", outcome |-> "closed"]
  /\ Len(dependencyChains) = 1
  /\ dependencyChains[1] = DependencyChain(4096, 4104, <<4096, 4100, 4104>>)
  /\ Tainted(Cur) = {}
  /\ ~hasActiveSession
  /\ completedStridePCs = {4096}

(***************************************************************************)
(* C5: taintReg(destReg, pc) with a pc the attached host does not          *)
(* recognise as a stride PC changes nothing: taint table, shadow values,   *)
(* session, completed chains, ledgers and counters are what they were.     *)
(***************************************************************************)
C5_NonStrideRejected ==
  \A destReg \in RegIds, pc \in Addrs, values \in AnyLoadValues :
     cpu => TaintReg(Cur, destReg, pc, FALSE, values) = Cur

C5_Witness ==
  /\ last = [op |-> "taintReg", outcome |-> "non-stride"]
  /\ cpu
  /\ hasActiveSession
  /\ Tainted(Cur) # {}

(***************************************************************************)
(* C6: a register index past the taint table is a no-op.  taintReg of such  *)
(* an index changes nothing; isRegTainted of it is false; propagateTaint   *)
(* never taints on account of a source of such an index (no new taint, the *)
(* chain not extended, no chain closed) and, with a destination of such an  *)
(* index, leaves the taint table as it was or, when the chain closes,      *)
(* cleared; the table never grows.                                         *)
(***************************************************************************)
C6_OutOfRangeIsNoOp ==
  /\ \A reg \in {OutOfRange, OutOfRange + 1} :
        /\ ~IsRegTainted(Cur, reg)
        /\ \A pc \in Addrs, isStride \in BOOLEAN, values \in AnyLoadValues :
              TaintReg(Cur, reg, pc, isStride, values) = Cur
  /\ \A inst \in AnyPropagated :
        LET t == PropagateTaint(Cur, inst)
        IN  /\ DOMAIN t.taintedRegs = DOMAIN taintedRegs
            /\ (\A i \in 1..Len(inst.srcRegs) : inst.srcRegs[i] >= TableSize)
               => /\ Tainted(t) \subseteq Tainted(Cur)
                  /\ t.activeSession = activeSession
                  /\ t.dependencyChains = dependencyChains
            /\ (Len(inst.destRegs) > 0 /\ inst.destRegs[1] >= TableSize)
               => /\ t.taintedRegs = taintedRegs \/ Tainted(t) = {}
                  /\ t.numTaintPropagations = numTaintPropagations

C6_Witness ==
  /\ last = [op |-> "taintReg", outcome |-> "invalid-register"]
  /\ hasActiveSession
  /\ Tainted(Cur) = {5}

\* the step of a ledger without the values a replay rewrites
Recorded(steps) ==
  [i \in 1..Len(steps) |->
     [pc |-> steps[i].pc, operation |-> steps[i].operation, operand2 |-> steps[i].operand2]]

\* a - b modulo 2^64
U64Sub(a, b) ==
  U64Add(a, U64Add([i \in 1..4 |-> Limb - 1 - b[i]], ToU64(1)))

\* the sum of the shift amounts of the slli steps
RECURSIVE ShiftSum(_)
ShiftSum(steps) ==
  IF steps = <<>> THEN 0
  ELSE (IF Head(steps).operation = "slli" THEN Head(steps).operand2[1] ELSE 0)
       + ShiftSum(Tail(steps))

(***************************************************************************)
(* C7: for the recorded ledger of a base PC, recomputeStepsForPC(pc, seed) *)
(* is a pure function of the seed.  A replay changes nothing but the       *)
(* operand1 and result fields of that ledger's steps; the value returned   *)
(* for a seed is the same before and after a replay with another seed; and *)
(* for seeds s1, s2 the results differ by (s1 - s2) * 2^K modulo 2^64, K   *)
(* being the sum of the shift amounts of the ledger's slli steps.          *)
(***************************************************************************)
C7_RecomputeIsPureInSeed ==
  \A pc \in Addrs, s1 \in AnySeeds, s2 \in AnySeeds :
     LET t     == RecomputeStepsForPC(Cur, pc, s2)
         steps == GetComputeSteps(Cur, pc)
     IN  /\ [t EXCEPT !.computeStepsByPC = computeStepsByPC] = Cur
         /\ DOMAIN t.computeStepsByPC = DOMAIN computeStepsByPC
         /\ \A b \in DOMAIN computeStepsByPC :
               /\ Recorded(t.computeStepsByPC[b]) = Recorded(computeStepsByPC[b])
               /\ b # pc => t.computeStepsByPC[b] = computeStepsByPC[b]
         /\ RecomputeResult(t, pc, s1) = RecomputeResult(Cur, pc, s1)
         /\ RecomputeResult(RecomputeStepsForPC(t, pc, s1), pc, s1)
              = RecomputeResult(Cur, pc, s1)
         /\ U64Sub(RecomputeResult(Cur, pc, s1), RecomputeResult(Cur, pc, s2))
              = U64Shl(U64Sub(s1, s2), ShiftSum(steps))

C7_Witness ==
  /\ last = [op |-> "recomputeStepsForPC", outcome |-> "replayed"]
  /\ \E i \in 1..Len(GetComputeSteps(Cur, 4096)) :
        LET step == GetComputeSteps(Cur, 4096)[i]
        IN  /\ step.operation = "slli"
            /\ step.operand1 = ToU64(100)
            /\ step.result = ToU64(400)

\* a session for 4096 seeded on R5, then the slli at 4100 and the load at 4104,
\* each recorded after it was propagated
ScenarioSlli == Inst(4100, <<5>>, <<6>>, FALSE, RawSlli, ToU64(0))
ScenarioLoad == Inst(4104, <<6>>, <<5>>, TRUE, RawLoad8, ToU64(0))

Scenario(s, values) ==
  LET seeded == TaintReg(s, 5, 4096, TRUE, values)
      p1     == PropagateTaint(seeded, ScenarioSlli)
      d1     == DecodeChainInstructionOperands(p1, 4100, ScenarioSlli)
      p2     == PropagateTaint(d1, ScenarioLoad)
  IN  DecodeChainInstructionOperands(p2, 4104, ScenarioLoad)

\* the same with both recordings after the load closed the chain
ScenarioRecordedLate(s, values) ==
  LET seeded == TaintReg(s, 5, 4096, TRUE, values)
      p1     == PropagateTaint(seeded, ScenarioSlli)
      p2     == PropagateTaint(p1, ScenarioLoad)
      d1     == DecodeChainInstructionOperands(p2, 4100, ScenarioSlli)
  IN  DecodeChainInstructionOperands(d1, 4104, ScenarioLoad)

(***************************************************************************)
(* C8: on an engine with no completed chain and no recorded step,          *)
(* taintReg(R5, 0x1000), propagateTaint of the slli at 0x1004 (R5 -> R6),  *)
(* propagateTaint of the load at 0x1008 (source R6, immediate 8), with     *)
(* decodeChainInstructionOperands for 0x1004 and 0x1008, leave the chain   *)
(* {0x1000, 0x1008, [0x1000, 0x1004, 0x1008]} and a ledger on which        *)
(* recomputeStepsForPC(0x1000, 100) returns 408.                           *)
(***************************************************************************)
C8_EndToEnd ==
  (dependencyChains = <<>> /\ computeStepsByPC = EmptyMap) =>
    \A values \in AnyLoadValues :
       \A t \in {Scenario(Cur, values), ScenarioRecordedLate(Cur, values)} :
          /\ t.dependencyChains = <<DependencyChain(4096, 4104, <<4096, 4100, 4104>>)>>
          /\ ~t.hasActiveSession
          /\ Recorded(GetComputeSteps(t, 4096))
               = << [pc |-> 4100, operation |-> "slli", operand2 |-> ToU64(2)],
                    [pc |-> 4104, operation |-> "lw", operand2 |-> ToU64(8)] >>
          /\ RecomputeResult(t, 4096, ToU64(100)) = ToU64(408)

C8_Witness ==
  /\ calls = 5
  /\ last = [op |-> "decodeChainInstructionOperands", outcome |-> "recorded"]
  /\ dependencyChains = <<DependencyChain(4096, 4104, <<4096, 4100, 4104>>)>>
  /\ Len(GetComputeSteps(Cur, 4096)) = 2
  /\ GetComputeSteps(Cur, 4096)[1].pc = 4100
  /\ GetComputeSteps(Cur, 4096)[2].pc = 4104
  /\ RecomputeResult(Cur, 4096, ToU64(100)) = ToU64(408)

(***************************************************************************)
(* C9: the ledger of every base PC holds at most one step per instruction  *)
(* address, and decodeChainInstructionOperands for an address that already *)
(* has a step in the ledger of a base PC leaves that ledger as it was.     *)
(***************************************************************************)
C9_RecordingIdempotent ==
  /\ \A b \in DOMAIN computeStepsByPC :
        \A i, j \in 1..Len(computeStepsByPC[b]) :
           computeStepsByPC[b][i].pc = computeStepsByPC[b][j].pc => i = j
  /\ \A inst \in AnyDecoded, b \in DOMAIN computeStepsByPC :
        LET t == DecodeChainInstructionOperands(Cur, inst.pc, inst)
        IN  AlreadyExists(computeStepsByPC[b], inst.pc)
            => /\ b \in DOMAIN t.computeStepsByPC
               /\ t.computeStepsByPC[b] = computeStepsByPC[b]

C9_Witness ==
  /\ last = [op |-> "decodeChainInstructionOperands", outcome |-> "duplicate"]
  /\ \E b \in DOMAIN computeStepsByPC : Len(computeStepsByPC[b]) = 1

\* the sequence a is the front of the sequence b
IsPrefix(a, b) == Len(a) <= Len(b) /\ SubSeq(b, 1, Len(a)) = a

(***************************************************************************)
(* C10: the store of completed chains is append-only: whatever is called   *)
(* next (taintReg, propagateTaint, clearAllTaints,                         *)
(* decodeChainInstructionOperands, recomputeStepsForPC, setCPU), every     *)
(* record of dependencyChains is afterwards at the same position with the  *)
(* same basePC, indirectPC and chainPCs.                                   *)
(***************************************************************************)
C10_ChainsAppendOnly ==
  /\ \A destReg \in RegIds, pc \in Addrs, isStride \in BOOLEAN, values \in AnyLoadValues :
        IsPrefix(dependencyChains, TaintReg(Cur, destReg, pc, isStride, values).dependencyChains)
  /\ \A inst \in AnyPropagated :
        IsPrefix(dependencyChains, PropagateTaint(Cur, inst).dependencyChains)
  /\ IsPrefix(dependencyChains, ClearAllTaints(Cur).dependencyChains)
  /\ \A inst \in AnyDecoded :
        IsPrefix(dependencyChains,
                 DecodeChainInstructionOperands(Cur, inst.pc, inst).dependencyChains)
  /\ \A pc \in Addrs, seed \in AnySeeds :
        IsPrefix(dependencyChains, RecomputeStepsForPC(Cur, pc, seed).dependencyChains)
  /\ \A attached \in BOOLEAN :
        IsPrefix(dependencyChains, SetCPU(Cur, attached).dependencyChains)

C10_Witness ==
  /\ Len(dependencyChains) = 2
  /\ last.op = "propagateTaint"
  /\ last.outcome = "closed"

\* addresses a query may be made for: the program's and two that are never a base
AnyAddrs == Addrs \cup {0, 4108}

\* the base PCs of the completed chains
CompletedBases(s) == {s.dependencyChains[i].basePC : i \in 1..Len(s.dependencyChains)}

(***************************************************************************)
(* C11: for every address pc, hasCompletedPattern(pc) is true exactly when *)
(* dependencyChains holds a record with basePC = pc; getDependencyChain(pc) *)
(* returns the record of that base when there is one (there is only one)   *)
(* and nullptr otherwise.                                                  *)
(***************************************************************************)
C11_CompletedMatchesStore ==
  \A pc \in AnyAddrs :
     /\ HasCompletedPattern(Cur, pc) <=> pc \in CompletedBases(Cur)
     /\ pc \notin CompletedBases(Cur) => GetDependencyChain(Cur, pc) = <<>>
     /\ \A i \in 1..Len(dependencyChains) :
           dependencyChains[i].basePC = pc
           => GetDependencyChain(Cur, pc) = <<dependencyChains[i]>>

C11_Witness ==
  /\ Len(dependencyChains) = 2
  /\ HasCompletedPattern(Cur, 4096)
  /\ HasCompletedPattern(Cur, 4104)
  /\ ~HasCompletedPattern(Cur, 4100)
  /\ GetDependencyChain(Cur, 4104) = <<dependencyChains[2]>>
  /\ GetDependencyChain(Cur, 4100) = <<>>

(***************************************************************************)
(* C12: propagateTaint with no session open changes nothing; with a        *)
(* session open whose stridePC is already completed it sets                *)
(* hasActiveSession to false and changes nothing else, whatever the        *)
(* instruction.                                                            *)
(***************************************************************************)
C12_NoSessionAndStaleFrame ==
  \A inst \in AnyPropagated :
     LET t == PropagateTaint(Cur, inst)
     IN  /\ ~hasActiveSession => t = Cur
         /\ (hasActiveSession /\ activeSession.stridePC \in completedStridePCs)
            => /\ ~t.hasActiveSession
               /\ [t EXCEPT !.hasActiveSession = TRUE] = Cur

C12_Witness ==
  /\ last = [op |-> "propagateTaint", outcome |-> "stale"]
  /\ ~hasActiveSession
  /\ Tainted(Cur) = {5}
  /\ activeSession.stridePC \in completedStridePCs
  /\ activeSession.dependencyChain = {activeSession.stridePC}

\* the session open in s is still the open session in t
SessionKept(s, t) ==
  t.hasActiveSession /\ t.activeSession.stridePC = s.activeSession.stridePC

\* what no call but taintReg, propagateTaint and clearAllTaints does to a session
OtherCallsKeepSession ==
  /\ \A inst \in AnyDecoded :
        LET t == DecodeChainInstructionOperands(Cur, inst.pc, inst)
        IN  t.hasActiveSession = hasActiveSession /\ t.activeSession = activeSession
  /\ \A pc \in Addrs, seed \in AnySeeds :
        LET t == RecomputeStepsForPC(Cur, pc, seed)
        IN  t.hasActiveSession = hasActiveSession /\ t.activeSession = activeSession
  /\ \A attached \in BOOLEAN :
        LET t == SetCPU(Cur, attached)
        IN  t.hasActiveSession = hasActiveSession /\ t.activeSession = activeSession

\* taintReg and propagateTaint end a session only by replacement, by a load with
\* a tainted source or by the stale close
SeedAndPropagateKeepSession ==
  /\ \A destReg \in RegIds, pc \in Addrs, isStride \in BOOLEAN, values \in AnyLoadValues :
        (hasActiveSession /\ ~SeedAccepted(Cur, destReg, isStride))
        => SessionKept(Cur, TaintReg(Cur, destReg, pc, isStride, values))
  /\ \A inst \in AnyPropagated :
        (/\ hasActiveSession
         /\ activeSession.stridePC \notin completedStridePCs
         /\ ~(inst.isLoad /\ SomeSrcTainted(Cur, inst)))
        => SessionKept(Cur, PropagateTaint(Cur, inst))

(***************************************************************************)
(* C13: a session open for base PC b stops being the open session only     *)
(* through a propagateTaint of a load with a tainted source, a             *)
(* propagateTaint that finds b completed, an accepted taintReg, or a call  *)
(* of clearAllTaints, which always leaves no session open; rejected        *)
(* taintReg calls, other propagateTaint calls,                             *)
(* decodeChainInstructionOperands, recomputeStepsForPC and setCPU keep it. *)
(***************************************************************************)
C13_SessionEndsOnlyBy ==
  /\ SeedAndPropagateKeepSession
  /\ OtherCallsKeepSession
  /\ ~ClearAllTaints(Cur).hasActiveSession

C13_Witness ==
  /\ last = [op |-> "clearAllTaints", outcome |-> "cleared"]
  /\ ~hasActiveSession
  /\ activeSession.stridePC = 4096
  /\ activeSession.stridePC \notin completedStridePCs
  /\ Cardinality(activeSession.dependencyChain) = 2

\* C13 as first stated: clearAllTaints, being none of the three, keeps the session
C13_AsStated ==
  /\ SeedAndPropagateKeepSession
  /\ OtherCallsKeepSession
  /\ hasActiveSession => SessionKept(Cur, ClearAllTaints(Cur))

(***************************************************************************)
(* C14: every register with an entry in taintedValues is tainted: the      *)
(* entry goes when the taint is killed, when a chain closes and when       *)
(* clearAllTaints is called.                                               *)
(***************************************************************************)
C14_ShadowOnlyWhileTainted ==
  /\ DOMAIN taintedValues \subseteq Tainted(Cur)
  /\ DOMAIN ClearAllTaints(Cur).taintedValues = {}

\* the steps of a ledger are in strictly increasing order of address
AddressOrdered(steps) ==
  \A i, j \in 1..Len(steps) : i < j => steps[i].pc < steps[j].pc

\* every final ledger of s is in strictly increasing order of address
LedgersOrdered(s) ==
  \A b \in DOMAIN s.computeStepsByPC : AddressOrdered(s.computeStepsByPC[b])

(***************************************************************************)
(* C15: in every reachable state the steps of computeStepsByPC[b] are in   *)
(* strictly increasing order of address, for every base PC b: in the state *)
(* itself and in the states a clearAllTaints, a taintReg and a             *)
(* decodeChainInstructionOperands lead to from it.                         *)
(***************************************************************************)
C15_LedgerAddressOrdered ==
  /\ LedgersOrdered(Cur)
  /\ \A inst \in AnyDecoded :
        /\ LedgersOrdered(DecodeChainInstructionOperands(Cur, inst.pc, inst))
        /\ \A pc \in Addrs :
              LET seeded == TaintReg(ClearAllTaints(Cur), 5, pc, TRUE, <<>>)
              IN  LedgersOrdered(DecodeChainInstructionOperands(seeded, inst.pc, inst))

\* the instruction of the program at each address: the stride load, the shift
\* and the dependent load
ProgramAt(pc) ==
  IF pc = 4096 THEN Inst(4096, <<>>, <<5>>, TRUE, RawLoadNeg, ToU64(0))
  ELSE IF pc = 4100 THEN Inst(4100, <<5>>, <<6>>, FALSE, RawSlli, ToU64(0))
  ELSE Inst(4104, <<6>>, <<5>>, TRUE, RawLoad8, ToU64(0))

\* decodeChainInstructionOperands called for the addresses of order, one by one
RECURSIVE DecodeAll(_, _)
DecodeAll(s, order) ==
  IF order = <<>> THEN s
  ELSE DecodeAll(DecodeChainInstructionOperands(s, Head(order), ProgramAt(Head(order))),
                 Tail(order))

\* the orders in which the addresses of a chain can be observed
Orders(pcs) ==
  {order \in [1..Len(pcs) -> Range(pcs)] : Range(order) = Range(pcs)}

(***************************************************************************)
(* C16: with one completed chain, no session open and nothing recorded,    *)
(* decodeChainInstructionOperands called once for each address of the      *)
(* chain, in any order, leaves a ledger of the base PC with a step for     *)
(* every address, the same ledger for every order.                         *)
(***************************************************************************)
C16_OutOfOrderRecording ==
  (/\ Len(dependencyChains) = 1
   /\ ~hasActiveSession
   /\ computeStepsByPC = EmptyMap
   /\ currentSessionComputeSteps = EmptyMap)
  => LET chain   == dependencyChains[1]
         inOrder == DecodeAll(Cur, chain.chainPCs)
     IN  \A order \in Orders(chain.chainPCs) :
            LET t == DecodeAll(Cur, order)
            IN  /\ {GetComputeSteps(t, chain.basePC)[i].pc :
                      i \in 1..Len(GetComputeSteps(t, chain.basePC))}
                     = Range(chain.chainPCs)
                /\ GetComputeSteps(t, chain.basePC) = GetComputeSteps(inOrder, chain.basePC)

(***************************************************************************)
(* C17: propagateTaint on an open, non-stale session of an instruction     *)
(* with a tainted source and a recognised operation (slli, lw) leaves a    *)
(* step of that instruction in the ledger getComputeSteps returns for the  *)
(* session's base PC, with no call of decodeChainInstructionOperands.      *)
(***************************************************************************)
C17_ImmediateRecording ==
  \A inst \in AnyPropagated :
     LET t == PropagateTaint(Cur, inst)
     IN  (/\ OpenNonStale(Cur)
          /\ SomeSrcTainted(Cur, inst)
          /\ DecodeOperation(inst).operation # "")
         => AlreadyExists(GetComputeSteps(t, activeSession.stridePC), inst.pc)

(***************************************************************************)
(* C18: decodeChainInstructionOperands of an instruction whose opcode is   *)
(* none of slli, add and lw, or whose address is in neither the chain of   *)
(* the open session nor a completed chain, records no step: every ledger   *)
(* getComputeSteps returns is what it was, and so are the taints, the      *)
(* session, the completed chains and the counters.                         *)
(***************************************************************************)
C18_UnrecognisedNotRecorded ==
  \A inst \in AnyDecoded :
     LET t == DecodeChainInstructionOperands(Cur, inst.pc, inst)
     IN  /\ Opcode(inst.raw) \notin {OpcodeSlli, OpcodeAdd, OpcodeLoad}
            => /\ t.computeStepsByPC = computeStepsByPC
               /\ [t EXCEPT !.currentSessionComputeSteps = currentSessionComputeSteps] = Cur
         /\ (/\ ~(hasActiveSession /\ inst.pc \in activeSession.dependencyChain)
             /\ \A i \in 1..Len(dependencyChains) :
                   inst.pc \notin Range(dependencyChains[i].chainPCs))
            => t = Cur

C18_Witness ==
  /\ last = [op |-> "decodeChainInstructionOperands", outcome |-> "unrecognised"]
  /\ hasActiveSession
  /\ 4100 \in activeSession.dependencyChain
  /\ GetComputeSteps(Cur, activeSession.stridePC) = <<>>

(***************************************************************************)
(* C19: propagateTaint on an open, non-stale session of an instruction     *)
(* with no tainted source and no tainted destination changes nothing:      *)
(* taints, shadow values, session, completed chains, completed set,        *)
(* ledgers and counters are what they were.                                *)
(***************************************************************************)
C19_CleanInstructionFrame ==
  \A inst \in AnyPropagated :
     (/\ OpenNonStale(Cur)
      /\ ~SomeSrcTainted(Cur, inst)
      /\ (Len(inst.destRegs) > 0 => inst.destRegs[1] \notin Tainted(Cur)))
     => PropagateTaint(Cur, inst) = Cur

C19_Witness ==
  /\ last = [op |-> "propagateTaint", outcome |-> "untouched"]
  /\ hasActiveSession
  /\ activeSession.stridePC \notin completedStridePCs
  /\ Tainted(Cur) = {5}
  /\ calls = 2

(***************************************************************************)
(* C20: after an accepted taintReg(destReg, pc) that replaces an open      *)
(* session, destReg is the only tainted register, so that no later         *)
(* instruction joins the new session's dependencyChain on account of a     *)
(* register tainted under the old session.                                 *)
(***************************************************************************)
C20_ReseedAbandonsOldTaint ==
  \A destReg \in RegIds, pc \in Addrs, isStride \in BOOLEAN, values \in AnyLoadValues :
     LET t == TaintReg(Cur, destReg, pc, isStride, values)
     IN  (/\ SeedAccepted(Cur, destReg, isStride)
          /\ hasActiveSession
          /\ activeSession.stridePC # pc)
         => Tainted(t) = {destReg}

(***************************************************************************)
(* C21: with no session open no register is tainted, unless the session    *)
(* was closed as stale: clearAllTaints and the closing load leave no       *)
(* taint, a state with no session and a stridePC that is not completed has *)
(* no taint, and the stale close leaves the taint bits as they were, set   *)
(* ones included.                                                          *)
(***************************************************************************)
C21_NoTaintWithoutSession ==
  /\ (~hasActiveSession /\ activeSession.stridePC \notin completedStridePCs)
     => Tainted(Cur) = {}
  /\ Tainted(ClearAllTaints(Cur)) = {}
  /\ \A inst \in AnyPropagated :
        LET t == PropagateTaint(Cur, inst)
        IN  /\ (OpenNonStale(Cur) /\ ~t.hasActiveSession) => Tainted(t) = {}
            /\ (hasActiveSession /\ activeSession.stridePC \in completedStridePCs)
               => ~t.hasActiveSession /\ Tainted(t) = Tainted(Cur)

C21_Witness ==
  /\ last = [op |-> "propagateTaint", outcome |-> "closed"]
  /\ ~hasActiveSession
  /\ Tainted(Cur) = {}
  /\ numTaintPropagations = 2

\* C21 as first stated: no session open, no register tainted, the stale close
\* included
C21_AsStated == ~hasActiveSession => Tainted(Cur) = {}

(***************************************************************************)
(* C22: when base PC b has a completed chain, every step of                *)
(* computeStepsByPC[b] has an address of that chain's chainPCs: steps      *)
(* recorded under a session for b that was replaced or cleared are not in  *)
(* the ledger recomputeStepsForPC(b, seed) walks.                          *)
(***************************************************************************)
C22_LedgerWithinChain ==
  \A k \in 1..Len(dependencyChains) :
     LET chain == dependencyChains[k]
         steps == GetComputeSteps(Cur, chain.basePC)
     IN  \A i \in 1..Len(steps) : steps[i].pc \in Range(chain.chainPCs)

(***************************************************************************)
(* C23: in every record of dependencyChains, chainPCs is in dataflow       *)
(* order: its first element is the basePC and its last the indirectPC,     *)
(* also when the closing load lies below the base PC or below an           *)
(* intermediate instruction.                                               *)
(***************************************************************************)
C23_ChainInDataflowOrder ==
  \A k \in 1..Len(dependencyChains) :
     LET chain == dependencyChains[k]
     IN  /\ chain.chainPCs # <<>>
         /\ chain.chainPCs[1] = chain.basePC
         /\ chain.chainPCs[Len(chain.chainPCs)] = chain.indirectPC

(***************************************************************************)
(* C24: getNumTaintedRegs() is the number of registers whose taint bit is  *)
(* set.                                                                    *)
(***************************************************************************)
C24_TaintedCountIsExact ==
  GetStats(Cur).taintedCount = Cardinality(Tainted(Cur))

(***************************************************************************)
(* C25: clearAllTaints leaves no register tainted and no session open, and *)
(* leaves dependencyChains, completedStridePCs, computeStepsByPC,          *)
(* numTaintPropagations and numDetectedPatterns as they were; a            *)
(* propagateTaint directly after it changes nothing.                       *)
(***************************************************************************)
C25_ClearAllTaintsFrame ==
  LET t == ClearAllTaints(Cur)
  IN  /\ Tainted(t) = {}
      /\ \A reg \in RegIds : ~IsRegTainted(t, reg)
      /\ ~t.hasActiveSession
      /\ GetDependencyChains(t) = dependencyChains
      /\ t.completedStridePCs = completedStridePCs
      /\ t.computeStepsByPC = computeStepsByPC
      /\ GetStats(t).propagationCount = numTaintPropagations
      /\ GetStats(t).detectedPatternCount = numDetectedPatterns
      /\ \A inst \in AnyPropagated : PropagateTaint(t, inst) = t

C25_Witness ==
  /\ last = [op |-> "clearAllTaints", outcome |-> "cleared"]
  /\ Tainted(Cur) = {}
  /\ ~hasActiveSession
  /\ Len(dependencyChains) = 1
  /\ activeSession.stridePC \notin completedStridePCs
  /\ numTaintPropagations = 1
====
